---- MODULE Spec2Model ----
(***************************************************************************)
(* The market command of gemini-cli (src/commands.go, func market) with    *)
(* its Before hook (beforeTransaction) and its helpers (getFeeRatio,       *)
(* getOrderBookEntry, round, printError, printOrder).  The limit command   *)
(* (func limit) is one further action, taken under TradeSpec only, and     *)
(* round is applied on its own under RoundSpec.                            *)
(*                                                                         *)
(* Numbers.  The program computes in float64.  The model computes in exact *)
(* rationals [n |-> numerator, d |-> denominator], d > 0, in lowest terms: *)
(* the binary rounding error of float64 is abstracted away, every other    *)
(* step (the division by the price, int()'s truncation toward zero inside  *)
(* round) is computed as the code computes it.                             *)
(*                                                                         *)
(* The exchange (g.OrderBook, g.NewOrder of the gemini package) is the     *)
(* environment.  Its behaviour is bounded by a regime drawn in appRun so   *)
(* that runs of RETRIES_MAX iterations stay explorable:                    *)
(*   liquid  the top of book changes freely between queries (any price     *)
(*           pair, any lot), every order is executed completely;           *)
(*   half    fixed book, every order is executed for half its amount;      *)
(*   dry     fixed book, every order is accepted and nothing is executed;  *)
(*   thin    fixed book showing 1.5 units of the last traded decimal,      *)
(*           every order is executed completely.                           *)
(* In every regime any call may fail (transport error), and either side of *)
(* the book may be empty.                                                  *)
(***************************************************************************)
EXTENDS Integers, Sequences, FiniteSets, TLC

VARIABLES
    c,            \* *cli.Context: the flags of the invocation
    pc,           \* position: "main", "before", "market", "loop", "order", "exit"
    err,          \* the error the command returned ("" is nil)
    amount,       \* market: amount (fee-adjusted at line 231-235)
    baseAmount,   \* market: baseAmount
    retries,      \* market: retries
    executedAmt,  \* market: executedAmt
    orders,       \* market: orders (collected in JSON mode)
    decimals,     \* market: decimals
    minAmt,       \* market: minAmt
    bookEntry,    \* market: bookEntry of the current iteration
    fillAmount,   \* market: fillAmount of the current iteration
    sizedAmount,  \* market: btcAmount after line 263-267 (before the clamp)
    btcAmount,    \* market: btcAmount as submitted (after line 269-271)
    stdout,       \* what was written to standard output
    stderr,       \* what was written to standard error
    exch,         \* the exchange: [regime, level]
    nQueries,     \* number of g.OrderBook calls made
    nOrders,      \* number of g.NewOrder calls made
    lastCall,     \* the last call made to the exchange API
    submitted,    \* the arguments of the last g.NewOrder call
    fills,        \* log of the orders the exchange returned
    book,         \* what the last g.OrderBook call answered
    calc,         \* the last call of round: [v, dec, once, twice]
    limitPrice    \* limit: price (the price flag of the limit command)

vars == << c, pc, err, amount, baseAmount, retries, executedAmt, orders,
           decimals, minAmt, bookEntry, fillAmount, sizedAmount, btcAmount,
           stdout, stderr, exch, nQueries, nOrders, lastCall, submitted,
           fills, book, calc, limitPrice >>

-----------------------------------------------------------------------------
(* Exact rational arithmetic standing for float64.                         *)

RECURSIVE GCD(_, _)
GCD(a, b) == IF b = 0 THEN a ELSE GCD(b, a % b)

Abs(x) == IF x < 0 THEN -x ELSE x

Rat(n, d) ==
    LET g == GCD(Abs(n), d)
    IN  [n |-> n \div g, d |-> d \div g]

Zero == Rat(0, 1)

RNeg(x) == [n |-> -x.n, d |-> x.d]

RAdd(x, y) ==
    LET g == GCD(x.d, y.d)
    IN  Rat(x.n * (y.d \div g) + y.n * (x.d \div g), (x.d \div g) * y.d)

RSub(x, y) == RAdd(x, RNeg(y))

RMul(x, y) ==
    LET g1 == GCD(Abs(x.n), y.d)
        g2 == GCD(Abs(y.n), x.d)
    IN  Rat((x.n \div g1) * (y.n \div g2), (x.d \div g2) * (y.d \div g1))

RInv(x) == IF x.n < 0 THEN [n |-> -x.d, d |-> -x.n] ELSE [n |-> x.d, d |-> x.n]

RDiv(x, y) == RMul(x, RInv(y))

RLt(x, y) ==
    LET g == GCD(x.d, y.d)
    IN  x.n * (y.d \div g) < y.n * (x.d \div g)

RLe(x, y) == ~RLt(y, x)

RPos(x) == x.n > 0

\* Go's int(f): conversion of a float64 to int truncates toward zero.
Trunc(x) == IF x.n >= 0 THEN x.n \div x.d ELSE -((-x.n) \div x.d)

RECURSIVE Pow10(_)
Pow10(k) == IF k = 0 THEN 1 ELSE 10 * Pow10(k - 1)

-----------------------------------------------------------------------------
(* Program constants and helpers.                                          *)

RETRIES_MAX == 50

ERROR_AMBIGUOUS_AMOUNT == "Ambiguous use of both amt and base-amt flags"
ERROR_INVALID_AMOUNT   == "Amount or Base Amount must be above 0"
ERROR_INVALID_PRICE    == "Price must be above 0"
ERROR_MAX_RETRIES      == "Max retries"
ERROR_NO_ASKS          == "No asks in book"
ERROR_NO_BIDS          == "No bids in book"
ERROR_TRANSPORT        == "exchange API error"

\* A variant of getFeeRatio that counts every basis point twice.
getFeeRatio_Doubled(bps) == Rat(bps, 5000)

getFeeRatio(bps) == Rat(bps, 10000)

round(v, dec) ==
    LET pow == Rat(Pow10(dec), 1)
    IN  RDiv(Rat(Trunc(RAdd(RMul(v, pow), Rat(1, 2))), 1), pow)

\* A variant of getOrderBookEntry that reads the other side of the book.
getOrderBookEntry_Swapped(res, side) ==
    IF res.failed THEN [err |-> ERROR_TRANSPORT, entry |-> <<>>]
    ELSE IF side = "sell"
         THEN IF Len(res.Asks) < 1
              THEN [err |-> ERROR_NO_ASKS, entry |-> <<>>]
              ELSE [err |-> "", entry |-> <<res.Asks[1]>>]
         ELSE IF Len(res.Bids) < 1
              THEN [err |-> ERROR_NO_BIDS, entry |-> <<>>]
              ELSE [err |-> "", entry |-> <<res.Bids[1]>>]

\* res = [failed, Asks, Bids] is what g.OrderBook(mkt, 1, 1) answered.
getOrderBookEntry(res, side) ==
    IF res.failed THEN [err |-> ERROR_TRANSPORT, entry |-> <<>>]
    ELSE IF side = "buy"
         THEN IF Len(res.Asks) < 1
              THEN [err |-> ERROR_NO_ASKS, entry |-> <<>>]
              ELSE [err |-> "", entry |-> <<res.Asks[1]>>]
         ELSE IF Len(res.Bids) < 1
              THEN [err |-> ERROR_NO_BIDS, entry |-> <<>>]
              ELSE [err |-> "", entry |-> <<res.Bids[1]>>]

printError(e) == Append(stderr, e)

\* A variant of printOrder that prints the order as JSON.
printOrder_Json(o) == Append(stdout, [kind |-> "json", body |-> <<o>>])

printOrder(o) == Append(stdout, [kind |-> "order", body |-> <<o>>])

\* A variant of printJson that prints an empty array.
printJson_Empty(os) == Append(stdout, [kind |-> "json", body |-> <<>>])

printJson(os) == Append(stdout, [kind |-> "json", body |-> os])

\* main, line 941: the error app.Run returns is dropped and main returns,
\* so the process ends with status 0 whatever e is.
exitStatus(e) == 0

printBlank(out) == Append(out, [kind |-> "blank", body |-> <<>>])

-----------------------------------------------------------------------------
(* The invocation: the flags of the market command.                        *)

Mkts == {"btcusd", "ethusd", "ethbtc"}

Sides == {"buy", "sell"}

Amts == {Zero, Rat(100, 1)}

BaseAmts == {Zero, Rat(2, 1), Rat(2, 1000000), Rat(15, 10000000)}

BpsValues == {0, 25, 10000, 20000}

\* The flags the market command declares.
MarketFlags == {"amt", "base-amt", "bps", "json", "mkt", "side"}

Contexts ==
    [amt : Amts, baseAmt : BaseAmts, bps : BpsValues, mkt : Mkts,
     side : Sides, json : BOOLEAN, unsafe : BOOLEAN]

-----------------------------------------------------------------------------
(* The exchange.                                                           *)

MaxLots == 2

Lots == {Rat(k, 2) : k \in 1..MaxLots}

PricePairs ==
    {[ask |-> Rat(50000, 1), bid |-> Rat(40000, 1)],
     [ask |-> Rat(100, 1), bid |-> Rat(80, 1)]}

Levels == {[ask |-> p.ask, bid |-> p.bid, lot |-> l] : p \in PricePairs, l \in Lots}

Regimes == {"liquid", "half", "dry", "thin"}

\* A variant of Decimals with eight decimals on every market.
Decimals_Eight(mkt) == 8

Decimals(mkt) == IF mkt # "btcusd" THEN 6 ELSE 8

\* 1.5 units of the last decimal the market trades in.
ThinLot(mkt) == Rat(15, Pow10(Decimals(mkt) + 1))

\* The levels a run of the given regime can start with.
StartLevels(regime, mkt) ==
    CASE regime = "liquid" -> Levels
      [] regime = "thin"   -> {[ask |-> p.ask, bid |-> p.bid, lot |-> ThinLot(mkt)] : p \in PricePairs}
      [] OTHER             -> {lv \in Levels : lv.lot = Rat(1, 2)}

\* The levels the book can show at the next query.
NextLevels(x) == IF x.regime = "liquid" THEN Levels ELSE {x.level}

\* What g.OrderBook(mkt, 1, 1) can answer while the book shows level lv.
OrderBook(lv) ==
    LET ask == [Price |-> lv.ask, Amount |-> lv.lot]
        bid == [Price |-> lv.bid, Amount |-> lv.lot]
    IN  {[failed |-> FALSE, Asks |-> <<ask>>, Bids |-> <<bid>>],
         [failed |-> FALSE, Asks |-> <<>>,    Bids |-> <<bid>>],
         [failed |-> FALSE, Asks |-> <<ask>>, Bids |-> <<>>],
         [failed |-> TRUE,  Asks |-> <<>>,    Bids |-> <<>>]}

\* The amount the exchange executes of an accepted order of amount a.
Executed(regime, a, dec) ==
    CASE regime = "dry"  -> Zero
      [] regime = "half" -> Rat(Trunc(RMul(a, Rat(Pow10(dec), 2))), Pow10(dec))
      [] OTHER           -> a

\* What g.NewOrder(mkt, "", a, price, side, options) can answer.
NewOrder(x, mkt, a, price, side, dec) ==
    LET ex == Executed(x.regime, a, dec)
        order == [Symbol |-> mkt, Side |-> side, Price |-> price,
                  OriginalAmount |-> a, ExecutedAmount |-> ex,
                  AvgExecutionPrice |-> IF RPos(ex) THEN price ELSE Zero]
    IN  {[failed |-> TRUE, order |-> <<>>]}
        \cup (IF RPos(a) \/ x.regime = "dry"
              THEN {[failed |-> FALSE, order |-> <<order>>]}
              ELSE {})

NoEntry == [Price |-> Zero, Amount |-> Zero]

NoCall == [symbol |-> "", amount |-> Zero, price |-> Zero, side |-> "", options |-> <<>>]

NoBook == [failed |-> FALSE, Asks |-> <<>>, Bids |-> <<>>]

NoCalc == [v |-> Zero, dec |-> 0, once |-> Zero, twice |-> Zero]

-----------------------------------------------------------------------------
(* market: the computations of one invocation.                             *)

\* A variant of AmbiguousAmount that tests for two negative amounts.
AmbiguousAmount_Sign(amt, baseAmt) == RLt(baseAmt, Zero) /\ RLt(amt, Zero)

\* beforeTransaction, line 975
AmbiguousAmount(amt, baseAmt) == RPos(baseAmt) /\ RPos(amt)

\* line 206
InvalidAmount(amt, baseAmt) == ~RPos(amt) /\ ~RPos(baseAmt)

\* A variant of AtCeiling that allows one more iteration.
AtCeiling_OffByOne(r) == r = RETRIES_MAX + 1

\* line 239
AtCeiling(r) == r = RETRIES_MAX

\* A variant of MinAmt with one tolerance for every market and direction.
MinAmt_Flat(mkt, amt, baseAmt) == Rat(1, 1000000)

\* line 221-227
MinAmt(mkt, amt, baseAmt) ==
    IF (mkt = "ethbtc" \/ mkt = "ethusd") /\ RPos(baseAmt) THEN Rat(1, 10000)
    ELSE IF (mkt = "btcusd" \/ mkt = "ethusd") /\ RPos(amt) THEN Rat(1, 100)
    ELSE Rat(1, 1000000)

\* A variant of AdjustAmount with the two sides exchanged.
AdjustAmount_Swapped(amt, side, bps) ==
    LET feeRatio == getFeeRatio(bps)
    IN  IF side = "buy"
        THEN RAdd(amt, RMul(amt, feeRatio))
        ELSE RSub(amt, RMul(amt, feeRatio))

\* A variant of AdjustAmount that leaves the amount as given.
AdjustAmount_None(amt, side, bps) == amt

\* line 229-235
AdjustAmount(amt, side, bps) ==
    LET feeRatio == getFeeRatio(bps)
    IN  IF side = "buy"
        THEN RSub(amt, RMul(amt, feeRatio))
        ELSE RAdd(amt, RMul(amt, feeRatio))

\* A variant of FillAmount that adds what was executed.
FillAmount_Added(amt, baseAmt, executed) ==
    RAdd(IF RPos(amt) THEN amt ELSE baseAmt, executed)

\* A variant of FillAmount that forgets what was executed.
FillAmount_NoSubtract(amt, baseAmt, executed) ==
    IF RPos(amt) THEN amt ELSE baseAmt

\* line 253-261
FillAmount(amt, baseAmt, executed) ==
    LET target == IF RPos(amt) THEN amt ELSE baseAmt
    IN  IF RPos(executed) THEN RSub(target, executed) ELSE target

\* A variant of SizeAmount that does not round the slice.
SizeAmount_Unrounded(amt, fill, price, dec) ==
    IF RPos(amt) THEN RDiv(fill, price) ELSE fill

\* line 263-267
SizeAmount(amt, fill, price, dec) ==
    IF RPos(amt) THEN round(RDiv(fill, price), dec) ELSE round(fill, dec)

\* A variant of ClampAmount that always takes what the book shows.
ClampAmount_Always(entry, sized, dec) == round(entry.Amount, dec)

\* line 269-271
ClampAmount(entry, sized, dec) ==
    IF RLt(entry.Amount, sized) THEN round(entry.Amount, dec) ELSE sized

\* A variant of OrderArgs with the option of the limit command.
OrderArgs_MakerOrCancel(mkt, amt, price, side) ==
    [symbol |-> mkt, amount |-> amt, price |-> price, side |-> side,
     options |-> <<"maker-or-cancel">>]

\* line 274: the arguments of g.NewOrder
OrderArgs(mkt, amt, price, side) ==
    [symbol |-> mkt, amount |-> amt, price |-> price, side |-> side,
     options |-> <<"immediate-or-cancel">>]

\* A variant of Accumulate that always adds the executed amount alone.
Accumulate_NoPrice(amt, executed, order) == RAdd(executed, order.ExecutedAmount)

\* A variant of Accumulate that counts the executed amount of a base fill twice.
Accumulate_Twice(amt, executed, order) ==
    IF RPos(amt)
    THEN RAdd(executed, RMul(order.ExecutedAmount, order.AvgExecutionPrice))
    ELSE RAdd(executed, RAdd(order.ExecutedAmount, order.ExecutedAmount))

\* line 291-295
Accumulate(amt, executed, order) ==
    IF RPos(amt)
    THEN RAdd(executed, RMul(order.ExecutedAmount, order.AvgExecutionPrice))
    ELSE RAdd(executed, order.ExecutedAmount)

\* A variant of Satisfied that compares with the other amount.
Satisfied_WrongTarget(amt, baseAmt, executed, tolerance) ==
    \/ RPos(amt) /\ RLe(RSub(baseAmt, tolerance), executed)
    \/ RPos(baseAmt) /\ RLe(RSub(amt, tolerance), executed)

\* line 297
Satisfied(amt, baseAmt, executed, tolerance) ==
    \/ RPos(amt) /\ RLe(RSub(amt, tolerance), executed)
    \/ RPos(baseAmt) /\ RLe(RSub(baseAmt, tolerance), executed)

\* A variant of Collect that collects the order in text mode too.
Collect_Always(os, o, json) == Append(os, o)

\* line 285-286: orders = append(orders, order) in JSON mode
Collect(os, o, json) == IF json THEN Append(os, o) ELSE os

\* limit, line 175-179
LimitAmount(amt, baseAmt, price, dec) ==
    IF RPos(amt) THEN round(RDiv(amt, price), dec) ELSE round(baseAmt, dec)

\* limit, line 182: the arguments of g.NewOrder
LimitArgs(mkt, amt, price, side) ==
    [symbol |-> mkt, amount |-> amt, price |-> price, side |-> side,
     options |-> <<"maker-or-cancel">>]

\* A variant of NextRetry that never counts an iteration.
NextRetry_Stuck(r) == r

\* A variant of NextRetry that counts an iteration twice.
NextRetry_Double(r) == r + 2

\* line 306
NextRetry(r) == r + 1

-----------------------------------------------------------------------------
NoContext ==
    [amt |-> Zero, baseAmt |-> Zero, bps |-> 0, mkt |-> "", side |-> "",
     json |-> FALSE, unsafe |-> FALSE]

NoExchange == [regime |-> "", level |-> [ask |-> Zero, bid |-> Zero, lot |-> Zero]]

Init ==
    /\ c = NoContext
    /\ pc = "main"
    /\ err = ""
    /\ amount = Zero
    /\ baseAmount = Zero
    /\ retries = 0
    /\ executedAmt = Zero
    /\ orders = <<>>
    /\ decimals = 0
    /\ minAmt = Zero
    /\ bookEntry = NoEntry
    /\ fillAmount = Zero
    /\ sizedAmount = Zero
    /\ btcAmount = Zero
    /\ stdout = <<>>
    /\ stderr = <<>>
    /\ exch = NoExchange
    /\ nQueries = 0
    /\ nOrders = 0
    /\ lastCall = "none"
    /\ submitted = NoCall
    /\ fills = <<>>
    /\ book = NoBook
    /\ calc = NoCalc
    /\ limitPrice = Zero

locals == << amount, baseAmount, retries, executedAmt, orders, decimals, minAmt >>

iteration == << bookEntry, fillAmount, sizedAmount, btcAmount >>

api == << nQueries, nOrders, lastCall, submitted, fills >>

program == << c, pc, err, locals, iteration, stdout, stderr, exch, api, book,
             limitPrice >>

\* What the market command never touches.
aside == << calc, limitPrice >>

\* return err, after printError(err)
Fail(e) ==
    /\ stderr' = printError(e)
    /\ err' = e
    /\ pc' = "exit"

\* main, app.Run(os.Args): the command line is parsed into the context of
\* the market command; the exchange is in some regime when the command starts.
appRun ==
    /\ pc = "main"
    /\ c' \in Contexts
    /\ \E r \in Regimes : \E lv \in StartLevels(r, c'.mkt) :
           exch' = [regime |-> r, level |-> lv]
    /\ pc' = "before"
    /\ UNCHANGED << err, locals, iteration, stdout, stderr, api, book, aside >>

\* The Before hook of the command (commands: Before: beforeTransaction).
beforeTransaction ==
    /\ pc = "before"
    /\ IF AmbiguousAmount(c.amt, c.baseAmt)
       THEN Fail(ERROR_AMBIGUOUS_AMOUNT)
       ELSE /\ pc' = "market"
            /\ UNCHANGED << err, stderr >>
    /\ UNCHANGED << c, locals, iteration, stdout, exch, api, book, aside >>

\* market, line 200-235: validation and set-up.
marketStart ==
    /\ pc = "market"
    /\ IF InvalidAmount(c.amt, c.baseAmt)
       THEN /\ Fail(ERROR_INVALID_AMOUNT)
            /\ UNCHANGED locals
       ELSE /\ retries' = 0
            /\ executedAmt' = Zero
            /\ orders' = <<>>
            /\ decimals' = Decimals(c.mkt)
            /\ minAmt' = MinAmt(c.mkt, c.amt, c.baseAmt)
            /\ amount' = AdjustAmount(c.amt, c.side, c.bps)
            /\ baseAmount' = c.baseAmt
            /\ pc' = "loop"
            /\ UNCHANGED << err, stderr >>
    /\ UNCHANGED << c, iteration, stdout, exch, api, book, aside >>

\* market, line 239-243: the retry ceiling at the head of the loop.
maxRetries ==
    /\ pc = "loop"
    /\ AtCeiling(retries)
    /\ Fail(ERROR_MAX_RETRIES)
    /\ UNCHANGED << c, locals, iteration, stdout, exch, api, book, aside >>

\* market, line 247-251: the book query of one iteration.
bookQuery ==
    /\ pc = "loop"
    /\ ~AtCeiling(retries)
    /\ \E res \in OrderBook(exch.level) :
          LET r == getOrderBookEntry(res, c.side)
          IN  /\ book' = res
              /\ IF r.err # ""
                 THEN /\ Fail(r.err)
                      /\ UNCHANGED bookEntry
                 ELSE /\ bookEntry' = r.entry[1]
                      /\ pc' = "order"
                      /\ UNCHANGED << err, stderr >>
    /\ nQueries' = nQueries + 1
    /\ lastCall' = "OrderBook"
    /\ UNCHANGED << c, locals, fillAmount, sizedAmount, btcAmount, stdout,
                    exch, nOrders, submitted, fills, aside >>

\* market, line 253-307: sizing, submission, accounting, termination check.
commitTrade ==
    /\ pc = "order"
    /\ LET fill  == FillAmount(amount, baseAmount, executedAmt)
           sized == SizeAmount(amount, fill, bookEntry.Price, decimals)
           btc   == ClampAmount(bookEntry, sized, decimals)
       IN  /\ fillAmount' = fill
           /\ sizedAmount' = sized
           /\ btcAmount' = btc
           /\ submitted' = OrderArgs(c.mkt, btc, bookEntry.Price, c.side)
           /\ nOrders' = nOrders + 1
           /\ lastCall' = "NewOrder"
           /\ \E reply \in NewOrder(exch, c.mkt, btc, bookEntry.Price, c.side, decimals) :
              \E lv \in NextLevels(exch) :
                 IF reply.failed
                 THEN /\ Fail(ERROR_TRANSPORT)
                      /\ UNCHANGED << retries, executedAmt, orders, stdout, exch, fills >>
                 ELSE LET order == reply.order[1]
                          acc   == Accumulate(amount, executedAmt, order)
                          coll  == Collect(orders, order, c.json)
                          out   == IF c.json THEN stdout ELSE printOrder(order)
                      IN  /\ fills' = Append(fills, order)
                          /\ IF c.unsafe = FALSE
                             THEN /\ stdout' = printOrder(order)
                                  /\ pc' = "exit"
                                  /\ UNCHANGED << err, stderr, retries, executedAmt, orders, exch >>
                             ELSE /\ orders' = coll
                                  /\ executedAmt' = acc
                                  /\ IF Satisfied(amount, baseAmount, acc, minAmt)
                                     THEN /\ stdout' = IF c.json THEN printJson(coll) ELSE out
                                          /\ pc' = "exit"
                                          /\ UNCHANGED << retries, exch >>
                                     ELSE /\ stdout' = printBlank(out)
                                          /\ retries' = NextRetry(retries)
                                          /\ pc' = "loop"
                                          /\ exch' = [exch EXCEPT !.level = lv]
                                  /\ UNCHANGED << err, stderr >>
    /\ UNCHANGED << c, amount, baseAmount, decimals, minAmt, bookEntry, nQueries,
                    book, aside >>

Next ==
    \/ appRun
    \/ beforeTransaction
    \/ marketStart
    \/ maxRetries
    \/ bookQuery
    \/ commitTrade

Spec == Init /\ [][Next]_vars

-----------------------------------------------------------------------------
(* The limit command, the other command that sizes and submits an order.   *)

LimitPrices == {Zero, Rat(100, 1), Rat(50000, 1)}

\* What a maker-or-cancel order of amount a at price p comes back as.
Resting(mkt, a, p, side) ==
    [Symbol |-> mkt, Side |-> side, Price |-> p, OriginalAmount |-> a,
     ExecutedAmount |-> Zero, AvgExecutionPrice |-> Zero]

\* app.Run dispatching to the limit command: its Before hook
\* (beforeTransaction) and its action (limit, line 139-196).
limit ==
    /\ pc = "main"
    /\ \E ctx \in Contexts : \E p \in LimitPrices : \E failed \in BOOLEAN :
          /\ c' = ctx
          /\ limitPrice' = p
          /\ IF AmbiguousAmount(ctx.amt, ctx.baseAmt)
             THEN /\ Fail(ERROR_AMBIGUOUS_AMOUNT)
                  /\ UNCHANGED << stdout, api >>
             ELSE IF InvalidAmount(ctx.amt, ctx.baseAmt)
             THEN /\ Fail(ERROR_INVALID_AMOUNT)
                  /\ UNCHANGED << stdout, api >>
             ELSE IF ~RPos(p)
             THEN /\ Fail(ERROR_INVALID_PRICE)
                  /\ UNCHANGED << stdout, api >>
             ELSE LET amt   == AdjustAmount(ctx.amt, ctx.side, ctx.bps)
                      btc   == LimitAmount(amt, ctx.baseAmt, p, Decimals(ctx.mkt))
                      order == Resting(ctx.mkt, btc, p, ctx.side)
                  IN  /\ submitted' = LimitArgs(ctx.mkt, btc, p, ctx.side)
                      /\ nOrders' = nOrders + 1
                      /\ lastCall' = "NewOrder"
                      /\ UNCHANGED nQueries
                      /\ IF failed
                         THEN /\ Fail(ERROR_TRANSPORT)
                              /\ UNCHANGED << stdout, fills >>
                         ELSE /\ fills' = Append(fills, order)
                              /\ stdout' = IF ctx.json THEN printJson(<<order>>)
                                                       ELSE printOrder(order)
                              /\ pc' = "exit"
                              /\ UNCHANGED << err, stderr >>
    /\ UNCHANGED << locals, iteration, exch, book, calc >>

TradeNext ==
    \/ appRun
    \/ beforeTransaction
    \/ marketStart
    \/ maxRetries
    \/ bookQuery
    \/ commitTrade
    \/ limit

TradeSpec == Init /\ [][TradeNext]_vars

\* Control moves on.  Every step of Next changes pc, and a step is possible
\* in every state but the return, so weak fairness of Advance is weak
\* fairness of Next, with the enabling condition pc # "exit".
Advance ==
    /\ pc # "exit"
    /\ pc' \in {"before", "market", "loop", "order", "exit"}
    /\ pc' # pc

\* The command is sequential and each call to the exchange returns: it
\* never stops before its return.
FairSpec == Spec /\ WF_pc(Advance)

-----------------------------------------------------------------------------
(* round on its own: the function applied to values of either sign, on and  *)
(* off the half-unit boundaries, once and to its own result.               *)

RoundMaxNum == 30

RoundMaxDec == 2

\* Twentieths: at dec = 0 the values n/20 with n = 10 mod 20 are exact
\* halves, at dec = 1 those with n odd.
RoundValues == {Rat(n, 20) : n \in -RoundMaxNum..RoundMaxNum}

RoundDecimals == 0..RoundMaxDec

roundCall ==
    /\ \E v \in RoundValues : \E dec \in RoundDecimals :
           calc' = [v |-> v, dec |-> dec, once |-> round(v, dec),
                    twice |-> round(round(v, dec), dec)]
    /\ UNCHANGED program

RoundNext == roundCall

RoundSpec == Init /\ [][RoundNext]_vars

-----------------------------------------------------------------------------
(* The terms the claims are stated in.                                     *)

\* The terminal states of the sweep.
Done == pc = "exit" /\ err = ""

Failed == pc = "exit" /\ err # ""

\* The loop of the sweep has been entered.
Started == pc \in {"loop", "order"} \/ nQueries > 0

\* The request is quote-denominated: the raw quote amount is positive.
Quote == RPos(c.amt)

\* raw x (1 - bps/10000) when buying, raw x (1 + bps/10000) when selling.
FeeAdjusted(raw) ==
    IF c.side = "buy"
    THEN RMul(raw, Rat(10000 - c.bps, 10000))
    ELSE RMul(raw, Rat(10000 + c.bps, 10000))

\* The amount pursued: fee-adjusted quote amount, or the base amount.
Target == IF Quote THEN FeeAdjusted(c.amt) ELSE c.baseAmt

\* What one fill adds to the accumulated amount.
Contribution(o) ==
    IF Quote THEN RMul(o.ExecutedAmount, o.AvgExecutionPrice) ELSE o.ExecutedAmount

\* The sum of the contributions of s[lo..hi] (by halving, to keep the
\* evaluation shallow).
RECURSIVE SumRange(_, _, _)
SumRange(s, lo, hi) ==
    IF lo > hi THEN Zero
    ELSE IF lo = hi THEN Contribution(s[lo])
    ELSE LET mid == (lo + hi) \div 2
         IN  RAdd(SumRange(s, lo, mid), SumRange(s, mid + 1, hi))

SumContrib(s) == SumRange(s, 1, Len(s))

\* The fills received so far reach the target up to the tolerance.
Sufficient == RLe(RSub(Target, minAmt), SumContrib(fills))

\* The accumulated amount the current iteration was sized with: the fills
\* of the earlier iterations.
AccBefore == SumContrib(SubSeq(fills, 1, nOrders - 1))

Remaining == RSub(Target, AccBefore)

\* An iteration has submitted its order (the state right after g.NewOrder).
Submitted == lastCall = "NewOrder"

-----------------------------------------------------------------------------
(* C1 *)

-----------------------------------------------------------------------------
(* C2 *)

\* The sweep ended without a validation or collaborator error and the fills
\* it received leave the accumulated amount below target - minAmt.
EndedInsufficient ==
    /\ pc = "exit"
    /\ nQueries >= 1
    /\ err \in {"", ERROR_MAX_RETRIES}
    /\ ~Sufficient

Exhausted ==
    /\ err = ERROR_MAX_RETRIES
    /\ nOrders = RETRIES_MAX
    /\ nQueries = RETRIES_MAX

-----------------------------------------------------------------------------
(* C3 *)

\* C3: every sweep eventually returns (DONE or FAILED), having made at most
\* 50 book queries and 50 submissions, and after the return no further
\* book query or order submission is made.
C3_Terminates ==
    /\ <>(pc = "exit")
    /\ [](nOrders <= RETRIES_MAX /\ nQueries <= RETRIES_MAX)
    /\ [][pc = "exit" => (pc' = "exit" /\ nQueries' = nQueries /\ nOrders' = nOrders)]_vars

\* A sweep that returned DONE after several iterations.
C3_Witness == Done /\ nOrders >= 2 /\ nQueries = nOrders

-----------------------------------------------------------------------------
(* C4 *)

\* C4: once the command line is parsed, with neither amt nor base-amt
\* positive the command fails with the invalid-amount error, with both
\* positive it fails with the ambiguous-amount error, and in both cases no
\* book query and no order submission is ever made.
C4_Validation ==
    /\ (pc # "main" /\ ~RPos(c.amt) /\ ~RPos(c.baseAmt)) =>
          /\ pc \in {"before", "market", "exit"}
          /\ nQueries = 0 /\ nOrders = 0
          /\ pc = "exit" => (err = ERROR_INVALID_AMOUNT /\ stderr = <<ERROR_INVALID_AMOUNT>>)
    /\ (RPos(c.amt) /\ RPos(c.baseAmt)) =>
          /\ pc \in {"before", "exit"}
          /\ nQueries = 0 /\ nOrders = 0
          /\ pc = "exit" => (err = ERROR_AMBIGUOUS_AMOUNT /\ stderr = <<ERROR_AMBIGUOUS_AMOUNT>>)

\* A command that was rejected for giving both amounts.
C4_Witness == RPos(c.amt) /\ RPos(c.baseAmt) /\ Failed /\ err = ERROR_AMBIGUOUS_AMOUNT

-----------------------------------------------------------------------------
(* C5 *)

\* C5 (as claimed): the amount of every submitted order is at most the
\* amount of the top-of-book entry fetched in the same iteration.
C5_AsClaimed == Submitted => RLe(submitted.amount, bookEntry.Amount)

-----------------------------------------------------------------------------
(* C6 *)

\* C6 (as claimed): when the book amount is less than the required slice
\* the submitted amount is round(bookEntry.amount, decimals) and not the
\* larger requested value; otherwise it is the required slice.
C6_AsClaimed ==
    Submitted =>
        IF RLt(bookEntry.Amount, sizedAmount)
        THEN /\ submitted.amount = round(bookEntry.Amount, Decimals(c.mkt))
             /\ submitted.amount # sizedAmount
        ELSE submitted.amount = sizedAmount

-----------------------------------------------------------------------------
(* C7 *)

-----------------------------------------------------------------------------
(* C8 *)

-----------------------------------------------------------------------------
(* C9 *)

\* C9: the pursued quote amount is raw x (1 - bps/10000) when buying and
\* raw x (1 + bps/10000) when selling, so that buy-adjusted <= raw <=
\* sell-adjusted, with equality only at bps = 0.
C9_FeeAdjustedTarget ==
    (Started /\ Quote) =>
        /\ amount = FeeAdjusted(c.amt)
        /\ c.side = "buy" => RLe(amount, c.amt)
        /\ c.side = "sell" => RLe(c.amt, amount)
        /\ (amount = c.amt) <=> (c.bps = 0)

\* A sell of a quote amount with a fee, sized against its adjusted target.
C9_Witness == Started /\ Quote /\ c.side = "sell" /\ c.bps = 25 /\ Submitted

-----------------------------------------------------------------------------
(* C10 *)

\* The target the loop pursues in its sizing and its termination check.
Pursued == IF Quote THEN amount ELSE baseAmount

-----------------------------------------------------------------------------
(* C11 *)

\* C11 (as claimed): the direction chosen at sweep start by which raw amount
\* is positive is the one every iteration uses: the test the loop applies
\* in sizing, accounting and termination agrees with it, the amount to fill
\* is the target of that direction minus what was accumulated, and the
\* sweep goes on only while that target is not reached.
C11_AsClaimed ==
    Started =>
        /\ RPos(amount) <=> Quote
        /\ Submitted => fillAmount = Remaining
        /\ (c.unsafe /\ pc = "loop" /\ nOrders >= 1) => ~Sufficient

-----------------------------------------------------------------------------
(* C12 *)

\* The side of the book the request trades against.
RelevantSide(b) == IF c.side = "buy" THEN b.Asks ELSE b.Bids

\* The last book query failed, or found the relevant side empty.
QueryFailed ==
    /\ lastCall = "OrderBook"
    /\ book.failed \/ Len(RelevantSide(book)) = 0

\* C12: when the book query fails or finds no asks when buying (no bids
\* when selling), the sweep ends at once with that error, no order is
\* submitted in that iteration or later and the query is not repeated;
\* otherwise the entry used is the best ask when buying, the best bid when
\* selling.
C12_BookFailureFatal ==
    /\ [](QueryFailed =>
            /\ pc = "exit"
            /\ err = (IF book.failed THEN ERROR_TRANSPORT
                      ELSE IF c.side = "buy" THEN ERROR_NO_ASKS ELSE ERROR_NO_BIDS)
            /\ stderr = <<err>>
            /\ nOrders = nQueries - 1)
    /\ [](pc = "order" =>
            /\ ~book.failed
            /\ Len(RelevantSide(book)) >= 1
            /\ bookEntry = RelevantSide(book)[1])
    /\ [][QueryFailed => (nQueries' = nQueries /\ nOrders' = nOrders /\ pc' = pc)]_vars

\* A sell that found no bids at its third query.
C12_Witness ==
    /\ QueryFailed /\ ~book.failed /\ c.side = "sell"
    /\ Len(book.Asks) = 1 /\ nQueries = 3 /\ nOrders = 2

-----------------------------------------------------------------------------
(* C13 *)

\* The last order submission returned an error.
SubmissionFailed == lastCall = "NewOrder" /\ Len(fills) = nOrders - 1

\* C13: when an order submission returns an error the sweep ends with that
\* error, with no further query or submission and the retry counter as it
\* was; the retry counter moves only by one, in an iteration whose
\* submission returned a fill and whose termination check did not pass.
C13_SubmissionFailureFatal ==
    /\ [](SubmissionFailed =>
            /\ pc = "exit"
            /\ err = ERROR_TRANSPORT
            /\ stderr = <<err>>
            /\ nQueries = nOrders
            /\ retries <= Len(fills))
    /\ [][SubmissionFailed =>
            (nQueries' = nQueries /\ nOrders' = nOrders /\ retries' = retries)]_vars
    /\ [][retries' # retries =>
            /\ retries' = retries + 1
            /\ Len(fills') = Len(fills) + 1
            /\ nOrders' = Len(fills')
            /\ err' = ""
            /\ ~Satisfied(amount, baseAmount, executedAmt', minAmt)]_vars

\* A submission that failed after two iterations had been counted.
C13_Witness == SubmissionFailed /\ pc = "exit" /\ retries = 2 /\ nOrders = 3

-----------------------------------------------------------------------------
(* C14 *)

\* C14: every order submitted carries the requested market and side, the
\* immediate-or-cancel option, and the price of the top-of-book entry that
\* the book query of the same iteration returned; each submission has a
\* book query of its own.
C14_OrderArguments ==
    Submitted =>
        /\ submitted.symbol = c.mkt
        /\ submitted.side = c.side
        /\ submitted.options = <<"immediate-or-cancel">>
        /\ Len(RelevantSide(book)) >= 1
        /\ submitted.price = RelevantSide(book)[1].Price
        /\ nQueries = nOrders

\* A second order priced differently from the first one.
C14_Witness ==
    /\ Submitted /\ nOrders = 2 /\ Len(fills) >= 1
    /\ submitted.price # fills[1].Price

-----------------------------------------------------------------------------
(* C15 *)

\* The state after the first iteration received its fill.
FirstFill == Len(fills) = 1 /\ nOrders = 1 /\ nQueries = 1

\* The book showed at least the slice the iteration asked for.
Unlimited == RLe(sizedAmount, bookEntry.Amount)

\* The order was executed completely at the price of the book entry.
FullFill(o) ==
    /\ RPos(o.OriginalAmount)
    /\ o.ExecutedAmount = o.OriginalAmount
    /\ o.AvgExecutionPrice = o.Price

Within(a, t, tol) == RLe(RSub(t, tol), a) /\ RLe(a, RAdd(t, tol))

\* Half a unit of the last traded decimal, in quote currency at the price
\* of the book entry: the most that rounding the slice can lose or add.
RoundingLoss == RMul(bookEntry.Price, Rat(1, 2 * Pow10(Decimals(c.mkt))))

-----------------------------------------------------------------------------
(* C16 *)

Scenario16 ==
    /\ c.mkt = "btcusd" /\ c.side = "buy" /\ c.bps = 25
    /\ c.amt = Rat(100, 1) /\ c.baseAmt = Zero

Book16 == bookEntry = [Price |-> Rat(50000, 1), Amount |-> Rat(1, 1)]

-----------------------------------------------------------------------------
(* C17 *)

Scenario17 ==
    /\ c.mkt = "ethbtc" /\ c.side = "sell"
    /\ c.baseAmt = Rat(2, 1) /\ c.amt = Zero

\* Every order so far was for 0.5 and was executed completely.
HalfLots ==
    \A i \in 1..Len(fills) :
        fills[i].OriginalAmount = Rat(1, 2) /\ FullFill(fills[i])

-----------------------------------------------------------------------------
(* C18 *)

\* C18 (as claimed): rounding a rounded value changes nothing,
\* round(round(x, d), d) = round(x, d), for x of either sign.
C18_AsClaimed == calc.twice = calc.once

-----------------------------------------------------------------------------
(* C19 *)

\* The greatest integer not above x.
Floor(x) == x.n \div x.d

\* floor(v x 10^dec + 0.5) / 10^dec
RoundHalfUp(v, dec) ==
    LET pow == Rat(Pow10(dec), 1)
    IN  RDiv(Rat(Floor(RAdd(RMul(v, pow), Rat(1, 2))), 1), pow)

\* C19 (as claimed): round(v, d) is floor(v x 10^d + 0.5) / 10^d for
\* every v, positive, zero or negative.
C19_AsClaimed == calc.once = RoundHalfUp(calc.v, calc.dec)

-----------------------------------------------------------------------------
(* C20 *)

\* The tolerance by market and direction of the request.
Tolerance ==
    IF Quote /\ c.mkt \in {"btcusd", "ethusd"} THEN Rat(1, 100)
    ELSE IF ~Quote /\ c.mkt \in {"ethbtc", "ethusd"} THEN Rat(1, 10000)
    ELSE Rat(1, 1000000)

\* C20: minAmt is 0.01 for a quote-denominated sweep on BTC-USD or ETH-USD,
\* 0.0001 for a base-denominated sweep on ETH-BTC or ETH-USD, 0.000001 in
\* every other case, whatever the side and bps; and it is the tolerance of
\* the termination check: a sweep that has received fills is DONE exactly
\* when the accumulated amount is at least the pursued amount minus it.
C20_Tolerance ==
    Started =>
        /\ minAmt = Tolerance
        /\ (c.unsafe /\ Len(fills) >= 1 /\ RPos(Pursued)) =>
               (Done <=> RLe(RSub(Pursued, Tolerance), executedAmt))

\* A base-denominated sweep on ETH-USD that was DONE within 0.0001.
C20_Witness ==
    /\ c.unsafe /\ ~Quote /\ c.mkt = "ethusd" /\ Done
    /\ minAmt = Rat(1, 10000) /\ RLt(executedAmt, c.baseAmt)

-----------------------------------------------------------------------------
(* C21 *)

\* x is an integer multiple of 10^-dec.
OnGrid(x, dec) == Pow10(dec) % x.d = 0

\* C21: every amount submitted by market or by limit is an integer
\* multiple of 10^-8 on BTC-USD and of 10^-6 on every other market.
C21_RoundedAmounts ==
    Submitted => OnGrid(submitted.amount, IF c.mkt = "btcusd" THEN 8 ELSE 6)

\* A market order whose slice had to be rounded to six decimals.
C21_Witness ==
    /\ Submitted /\ nQueries >= 1 /\ Quote /\ c.mkt = "ethusd"
    /\ ~OnGrid(RDiv(fillAmount, bookEntry.Price), 6)
    /\ submitted.amount = sizedAmount

-----------------------------------------------------------------------------
(* C22 *)

\* C22 (as claimed): whenever the command ends with an error a message is
\* on stderr and the exit status of the process is not 0.
C22_AsClaimed == Failed => (stderr # <<>> /\ exitStatus(err) # 0)

-----------------------------------------------------------------------------
(* C23 *)

IsText(x) == x.kind = "order"

IsJson(x) == x.kind = "json"

\* The orders printed as text, in the order they were printed.
TextOrders(out) ==
    LET t == SelectSeq(out, IsText)
    IN  [i \in 1..Len(t) |-> t[i].body[1]]

\* The JSON arrays printed, in the order they were printed.
JsonArrays(out) ==
    LET j == SelectSeq(out, IsJson)
    IN  [i \in 1..Len(j) |-> j[i].body]

-----------------------------------------------------------------------------
(* C24 *)

\* C24 (as claimed): an order is submitted only in an iteration whose
\* remaining amount, target minus accumulated, is positive.
C24_AsClaimed == Submitted => RPos(Remaining)

-----------------------------------------------------------------------------
(* C25 *)

\* C25: the calls to the exchange alternate, book query first: an order
\* submission follows a book query and a book query follows the start or
\* an order submission; and the amount an iteration sets out to fill is the
\* pursued amount minus the contributions of all earlier fills.
C25_Alternation ==
    /\ [](/\ lastCall = "none" => (nQueries = 0 /\ nOrders = 0)
          /\ lastCall = "OrderBook" => nQueries = nOrders + 1
          /\ lastCall = "NewOrder" => nQueries = nOrders)
    /\ [](Submitted =>
            fillAmount = RSub(IF RPos(amount) THEN amount ELSE baseAmount, AccBefore))
    /\ [][nOrders' # nOrders =>
            (lastCall = "OrderBook" /\ lastCall' = "NewOrder" /\ nOrders' = nOrders + 1)]_vars
    /\ [][nQueries' # nQueries =>
            (lastCall # "OrderBook" /\ lastCall' = "OrderBook" /\ nQueries' = nQueries + 1)]_vars

\* The third slice of a base-denominated sweep, sized after two fills.
C25_Witness ==
    /\ Submitted /\ nOrders = 3 /\ nQueries = 3 /\ ~Quote
    /\ RPos(AccBefore) /\ fillAmount = RSub(c.baseAmt, AccBefore)

-----------------------------------------------------------------------------
(* C26 *)

\* The order o was written to standard output, as text or in a JSON array.
Emitted(o) ==
    \E i \in 1..Len(stdout) :
        /\ stdout[i].kind \in {"order", "json"}
        /\ \E k \in 1..Len(stdout[i].body) : stdout[i].body[k] = o

-----------------------------------------------------------------------------
(* C27 *)

\* C27 (as claimed): every order submitted by market has a strictly
\* positive amount.
C27_AsClaimed == Submitted => RPos(submitted.amount)

-----------------------------------------------------------------------------
(* C28 *)

\* Every fill executed between nothing and the slice submitted.
FillsWithinSlice ==
    \A i \in 1..Len(fills) :
        /\ RLe(Zero, fills[i].ExecutedAmount)
        /\ RLe(fills[i].ExecutedAmount, fills[i].OriginalAmount)

\* The base amount plus half a unit of the last traded decimal.
OverfillBound == RAdd(c.baseAmt, Rat(1, 2 * Pow10(IF c.mkt = "btcusd" THEN 8 ELSE 6)))

\* C28: in a base-denominated sweep whose fills execute between 0 and the
\* slice submitted, the accumulated amount never decreases and is at most
\* baseAmount + 0.5 x 10^-decimals.
C28_Overfill ==
    /\ []((Started /\ ~Quote /\ FillsWithinSlice) =>
            /\ RLe(executedAmt, OverfillBound)
            /\ RLe(SumContrib(fills), OverfillBound))
    /\ [][(Started /\ ~Quote) => RLe(executedAmt, executedAmt')]_vars

\* A base-denominated sweep that executed more than its base amount, by
\* the rounding of its slice.
C28_Witness ==
    /\ c.unsafe /\ ~Quote /\ Started /\ FillsWithinSlice
    /\ RLt(c.baseAmt, executedAmt)

-----------------------------------------------------------------------------
(* C29 *)

-----------------------------------------------------------------------------
(* C30 *)

\* C30: once the loop has started no step changes the flags (market, side
\* among them), decimals, minAmt, the base amount or the fee-adjusted quote
\* amount; the retry counter changes only by +1, in the step of an
\* iteration that goes round again; the accumulated amount changes only
\* with a fill; and the collected orders change only in JSON mode, by the
\* one order just returned.
C30_Frame ==
    [][Started =>
        /\ c' = c
        /\ decimals' = decimals /\ minAmt' = minAmt
        /\ amount' = amount /\ baseAmount' = baseAmount
        /\ retries' # retries =>
              (retries' = retries + 1 /\ Len(fills') = Len(fills) + 1 /\ pc' = "loop")
        /\ pc' = "loop" => retries' = retries + 1
        /\ executedAmt' # executedAmt => Len(fills') = Len(fills) + 1
        /\ orders' # orders =>
              /\ c.json
              /\ Len(fills') = Len(fills) + 1
              /\ orders' = Append(orders, fills'[Len(fills')])
        /\ (c.unsafe /\ c.json /\ Len(fills') = Len(fills) + 1) => orders' # orders]_vars

\* A sweep in JSON mode going round for the third time.
C30_Witness ==
    /\ c.unsafe /\ c.json /\ pc = "loop" /\ retries = 2 /\ Len(orders) = 2
    /\ orders = fills

=============================================================================
